---- MODULE Spec2Model ----
(***************************************************************************)
(* Configuration loader of lightspeed-service (src/utils/config.py).       *)
(*                                                                         *)
(* A YAML document is parsed into a generic tree and the typed tree        *)
(* Config -> LLMConfig -> ProviderConfig -> ModelConfig, OLSConfig ->       *)
(* ConversationCacheConfig / LoggerConfig is built from it by the          *)
(* constructors.  Config.validate is a separate method.                    *)
(*                                                                         *)
(* Python's None is the empty tuple, a present value v is <<v>>.           *)
(* dict.get(key, None) does not tell a missing key from a null value, so   *)
(* raw mappings are records whose fields are all optional.                 *)
(***************************************************************************)
EXTENDS Integers, Sequences, FiniteSets, TLC

VARIABLES
    process,     \* "running", "exited" (exit was called) or "raised" (an exception left load_config)
    source,      \* the kind of the config_file argument of the last load_config call
    loads,       \* one record per load_config call of this process, oldest first
    config,      \* the Config the caller holds: the value the last load_config returned
    validated,   \* the outcome of Config.validate on config, once the caller has run it
    stdout,      \* the lines printed
    classDicts   \* the contents of the class-level default dictionaries

vars == <<process, source, loads, config, validated, stdout, classDicts>>

----------------------------------------------------------------------------
(* Bounds of the explored inputs *)

\* total number of list entries (provider entries plus model entries) of a document
MaxEntries == 4
\* number of load_config calls made by one process
MaxLoads == 3

----------------------------------------------------------------------------
(* Optional values and dictionaries *)

None == <<>>
Some(x) == <<x>>

EmptyDict == [k \in {} |-> k]
\* dict.setdefault(k, v): an existing key keeps its value
PutFirstWins(d, k, v) == [x \in (DOMAIN d) \cup {k} |-> IF x \in DOMAIN d THEN d[x] ELSE v]

\* d[k] = v of a Python dict: a new key is added, an existing key is overwritten
Put(d, k, v) == [x \in (DOMAIN d) \cup {k} |-> IF x = k THEN v ELSE d[x]]

----------------------------------------------------------------------------
(* Exceptions *)

Exc(type, msg, arg) == [type |-> type, msg |-> msg, arg |-> arg]
Exception(msg) == Exc("Exception", msg, "")

\* A constructor either returns a value or raises; st is the interpreter state
\* it leaves behind: the dictionary objects and the log of the sections whose
\* processing has begun.
Return(v, st) == [exc |-> None, val |-> Some(v), st |-> st]
Raise(e, st) == [exc |-> Some(e), val |-> None, st |-> st]

Visit(st, what) == [st EXCEPT !.visited = Append(@, what)]
Store(st, ref, k, v) == [st EXCEPT !.heap[ref] = Put(@, k, v)]

----------------------------------------------------------------------------
(* Class-level default dictionaries *)

\* the dictionary object written as the default of LLMConfig.providers
ClsProviders == 1
\* the dictionary object written as the default of ProviderConfig.models
ClsModels == 2

\* a plain class attribute: every instance would use the one class-level object
FieldDefaultShared(heap, clsRef) == [ref |-> clsRef, heap |-> heap]

\* pydantic's BaseModel.__init__ gives each instance its own copy of a field's
\* default value
FieldDefault(heap, clsRef) ==
    [ref |-> Len(heap) + 1, heap |-> Append(heap, heap[clsRef])]

----------------------------------------------------------------------------
(* Constructors *)

ModelConfig(data, st) ==
    IF data = None
    THEN Raise(Exc("TypeError", "'NoneType' object is not subscriptable", ""), st)
    ELSE Return([name |-> data[1].name,
                 url |-> data[1].url,
                 credential_path |-> data[1].credential_path], st)

\* for m in data["models"], from the j-th entry on
RECURSIVE ProviderModels(_, _, _, _)
ProviderModels(models, j, ref, st) ==
    IF j > Len(models) THEN Return(ref, st)
    ELSE LET m == models[j]
             st1 == Visit(st, <<"model", j>>)
         IN  IF m.name = None THEN Raise(Exception("model name is missing"), st1)
             ELSE LET r == ModelConfig(Some(m), st1)
                  IN  IF r.exc # None THEN r
                      ELSE ProviderModels(models, j + 1, ref,
                                          Store(r.st, ref, m.name[1], r.val[1]))

ProviderConfig(data, st) ==
    LET d == FieldDefault(st.heap, ClsModels)
        st0 == [st EXCEPT !.heap = d.heap]
    IN  IF data = None
        THEN Return([name |-> None, url |-> None, credential_path |-> None,
                     models |-> d.ref], st0)
        ELSE LET p == data[1]
             IN  IF p.models = None \/ Len(p.models[1]) = 0
                 THEN Raise(Exc("Exception", "no models configured for provider",
                                IF p.name = None THEN "None" ELSE p.name[1]), st0)
                 ELSE LET r == ProviderModels(p.models[1], 1, d.ref, st0)
                      IN  IF r.exc # None THEN r
                          ELSE Return([name |-> p.name, url |-> p.url,
                                       credential_path |-> p.credential_path,
                                       models |-> d.ref], r.st)

\* for p in data, from the i-th entry on
RECURSIVE LLMProviders(_, _, _, _)
LLMProviders(data, i, ref, st) ==
    IF i > Len(data) THEN Return([providers |-> ref], st)
    ELSE LET p == data[i]
             st1 == Visit(st, <<"provider", i>>)
         IN  IF p.name = None THEN Raise(Exception("provider name is missing"), st1)
             ELSE LET r == ProviderConfig(Some(p), st1)
                  IN  IF r.exc # None THEN r
                      ELSE LLMProviders(data, i + 1, ref,
                                        Store(r.st, ref, p.name[1], r.val[1]))

LLMConfig(data, st) ==
    LET d == FieldDefault(st.heap, ClsProviders)
        st0 == Visit([st EXCEPT !.heap = d.heap], <<"llm_providers">>)
    IN  IF data = None \/ Len(data[1]) = 0
        THEN Raise(Exception("no llm providers configured"), st0)
        ELSE LLMProviders(data[1], 1, d.ref, st0)

RedisConfig(data, st) ==
    IF data = None
    THEN Return([host |-> None, port |-> None, max_memory |-> None,
                 max_memory_policy |-> None], st)
    ELSE Return([host |-> data[1].host, port |-> data[1].port,
                 max_memory |-> data[1].max_memory,
                 max_memory_policy |-> data[1].max_memory_policy], st)

MemoryConfig(data, st) ==
    IF data = None
    THEN Return([max_entries |-> None], st)
    ELSE Return([max_entries |-> data[1].max_entries], st)

\* the sub-block is built without being required
ConversationCacheConfigUnchecked(data, st) ==
    LET st0 == Visit(st, <<"conversation_cache">>)
    IN  IF data = None
        THEN Return([type |-> None, redis |-> None, memory |-> None], st0)
        ELSE LET c == data[1]
             IN  IF c.type = Some("redis")
                 THEN Return([type |-> c.type, redis |-> RedisConfig(c.redis, st0).val,
                              memory |-> None], st0)
                 ELSE IF c.type = Some("memory")
                 THEN Return([type |-> c.type, redis |-> None,
                              memory |-> MemoryConfig(c.memory, st0).val], st0)
                 ELSE Return([type |-> c.type, redis |-> None, memory |-> None], st0)

ConversationCacheConfig(data, st) ==
    LET st0 == Visit(st, <<"conversation_cache">>)
    IN  IF data = None
        THEN Return([type |-> None, redis |-> None, memory |-> None], st0)
        ELSE LET c == data[1]
             IN  IF c.type = Some("redis")
                 THEN IF c.redis = None
                      THEN Raise(Exception("redis config is missing"), st0)
                      ELSE Return([type |-> c.type,
                                   redis |-> RedisConfig(c.redis, st0).val,
                                   memory |-> None], st0)
                 ELSE IF c.type = Some("memory")
                 THEN IF c.memory = None
                      THEN Raise(Exception("memory config is missing"), st0)
                      ELSE Return([type |-> c.type, redis |-> None,
                                   memory |-> MemoryConfig(c.memory, st0).val], st0)
                 ELSE Return([type |-> c.type, redis |-> None, memory |-> None], st0)

LoggerConfig(data, st) ==
    LET st0 == Visit(st, <<"logger_config">>)
    IN  IF data = None
        THEN Return([level |-> None, filename |-> None], st0)
        ELSE Return([level |-> data[1].level, filename |-> data[1].filename], st0)

\* the fields of a pydantic OLSConfig after super().__init__()
OLSDefaults ==
    [enable_debug_ui |-> FALSE, default_model |-> None, classifier_model |-> None,
     conversation_cache |-> None, logger_config |-> None]

OLSConfig(data, st) ==
    LET st0 == Visit(st, <<"ols_config">>)
    IN  IF data = None THEN Return(OLSDefaults, st0)
        ELSE LET o == data[1]
                 cc == ConversationCacheConfig(o.conversation_cache, st0)
             IN  IF cc.exc # None THEN cc
                 ELSE LET lc == LoggerConfig(o.logger_config, cc.st)
                      IN  Return([OLSDefaults EXCEPT
                                    !.default_model = o.default_model,
                                    !.enable_debug_ui =
                                        IF o.enable_debug_ui = None THEN FALSE
                                        ELSE o.enable_debug_ui[1],
                                    !.conversation_cache = cc.val,
                                    !.logger_config = lc.val], lc.st)

\* ols_config is built before llm_config
ConfigOLSFirst(data, st) ==
    IF data = None THEN Return([llm_config |-> None, ols_config |-> None], st)
    ELSE LET o == OLSConfig(data[1].ols_config, st)
         IN  IF o.exc # None THEN o
             ELSE LET l == LLMConfig(data[1].llm_providers, o.st)
                  IN  IF l.exc # None THEN l
                      ELSE Return([llm_config |-> l.val, ols_config |-> o.val], l.st)

\* Config.__init__
Config(data, st) ==
    IF data = None THEN Return([llm_config |-> None, ols_config |-> None], st)
    ELSE LET l == LLMConfig(data[1].llm_providers, st)
         IN  IF l.exc # None THEN l
             ELSE LET o == OLSConfig(data[1].ols_config, l.st)
                  IN  IF o.exc # None THEN o
                      ELSE Return([llm_config |-> l.val, ols_config |-> o.val], o.st)

\* the field values of a Config, its dictionaries read through their references
ProviderView(p, heap) ==
    [name |-> p.name, url |-> p.url, credential_path |-> p.credential_path,
     models |-> heap[p.models]]

ConfigView(cfg, heap) ==
    [llm_config |->
        IF cfg.llm_config = None THEN None
        ELSE Some([providers |->
                     LET ps == heap[cfg.llm_config[1].providers]
                     IN  [n \in DOMAIN ps |-> ProviderView(ps[n], heap)]]),
     ols_config |-> cfg.ols_config]

----------------------------------------------------------------------------
(* Config.validate *)

NoError == None

\* the classifier model is checked before the default model
ConfigValidateSwapped(c) ==
    IF c.llm_config = None THEN Some(Exception("no llm config found"))
    ELSE IF Cardinality(DOMAIN c.llm_config[1].providers) = 0
    THEN Some(Exception("no llm providers found"))
    ELSE IF c.ols_config = None THEN Some(Exception("no ols config found"))
    ELSE IF c.ols_config[1].classifier_model = None
    THEN Some(Exception("classifier model is not set"))
    ELSE IF c.ols_config[1].default_model = None
    THEN Some(Exception("default model is not set"))
    ELSE IF c.ols_config[1].conversation_cache = None
    THEN Some(Exception("conversation cache is not set"))
    ELSE IF c.ols_config[1].logger_config = None
    THEN Some(Exception("logger config is not set"))
    ELSE NoError

ConfigValidate(c) ==
    IF c.llm_config = None THEN Some(Exception("no llm config found"))
    ELSE IF Cardinality(DOMAIN c.llm_config[1].providers) = 0
    THEN Some(Exception("no llm providers found"))
    ELSE IF c.ols_config = None THEN Some(Exception("no ols config found"))
    ELSE IF c.ols_config[1].default_model = None
    THEN Some(Exception("default model is not set"))
    ELSE IF c.ols_config[1].classifier_model = None
    THEN Some(Exception("classifier model is not set"))
    ELSE IF c.ols_config[1].conversation_cache = None
    THEN Some(Exception("conversation cache is not set"))
    ELSE IF c.ols_config[1].logger_config = None
    THEN Some(Exception("logger config is not set"))
    ELSE NoError

----------------------------------------------------------------------------
(* load_config *)

\* the kinds of object a caller passes as config_file
SourceKinds == {"str", "pathlike", "handle"}

\* config_file.name exists on path objects and on file objects, not on str
HasName(config_file) == config_file # "str"

\* the body of the try block: open, yaml.safe_load, Config(data)
TryLoad(config_file, file, st) ==
    IF config_file = "handle"
    THEN Raise(Exc("TypeError", "expected str, bytes or os.PathLike object", ""), st)
    ELSE IF file.state = "missing"
    THEN Raise(Exc("FileNotFoundError", "No such file or directory", ""), st)
    ELSE IF file.state = "malformed"
    THEN Raise(Exc("YAMLError", "could not parse", ""), st)
    ELSE Config(file.data, st)

\* yaml.safe_load has returned: the local variable data is bound
Parsed(config_file, file) == config_file # "handle" /\ file.state = "ok"

\* what one call of load_config did: the parsed document (None while data is
\* unbound), the exception raised in the try block, the sections visited, and
\* how the call ended
LoadRecord(config_file, file, r, kind, status, escaped, cfg) ==
    [data |-> IF Parsed(config_file, file) THEN Some(file.data) ELSE None,
     exc |-> r.exc, visited |-> r.st.visited,
     kind |-> kind, exit_status |-> status, escaped |-> escaped, cfg |-> cfg]

load_config(config_file, file) ==
    /\ process = "running"
    /\ Len(loads) < MaxLoads
    /\ source' = config_file
    /\ LET r == TryLoad(config_file, file, [heap |-> classDicts, visited |-> <<>>])
       IN  /\ classDicts' = SubSeq(r.st.heap, 1, Len(classDicts))
           /\ validated' = None
           /\ IF r.exc = None
              THEN LET cfg == ConfigView(r.val[1], r.st.heap)
                   IN  /\ config' = Some(cfg)
                       /\ loads' = Append(loads, LoadRecord(config_file, file, r,
                                              "returned", None, None, Some(cfg)))
                       /\ UNCHANGED <<process, stdout>>
              ELSE IF HasName(config_file)
              THEN /\ stdout' = stdout \o
                          << <<"Failed to load config file", r.exc[1].msg, r.exc[1].arg>>,
                             <<"Traceback", r.exc[1].type>> >>
                   /\ process' = "exited"
                   /\ loads' = Append(loads, LoadRecord(config_file, file, r,
                                          "exit", Some(1), None, None))
                   /\ UNCHANGED config
              ELSE /\ process' = "raised"
                   /\ loads' = Append(loads, LoadRecord(config_file, file, r, "raised",
                                          None,
                                          Some(Exc("AttributeError",
                                                   "'str' object has no attribute 'name'",
                                                   "")),
                                          None))
                   /\ UNCHANGED <<config, stdout>>

\* the caller runs Config.validate on the configuration it holds
validate ==
    /\ process = "running"
    /\ config # None
    /\ validated = None
    /\ validated' = Some(ConfigValidate(config[1]))
    /\ UNCHANGED <<process, source, loads, config, stdout, classDicts>>

----------------------------------------------------------------------------
(* Input documents *)

ProviderNames == {"openai", "bam"}

Model(name, url) == [name |-> name, url |-> url, credential_path |-> None]

ModelEntries ==
    {Model(None, None), Model(Some("gpt-4"), None),
     Model(Some("gpt-4"), Some("https://llm.example/v1"))}

\* the model lists of exactly k entries
RECURSIVE ModelLists(_)
ModelLists(k) ==
    IF k = 0 THEN {<<>>}
    ELSE {<<m>> \o r : m \in ModelEntries, r \in ModelLists(k - 1)}

Provider(name, models) ==
    [name |-> name, url |-> None, credential_path |-> None, models |-> models]

\* the provider entries that carry exactly k model entries
ProviderEntries(k) ==
    {Provider(n, Some(ms)) :
        n \in {None} \cup {Some(x) : x \in ProviderNames}, ms \in ModelLists(k)}
    \cup (IF k = 0
          THEN {Provider(n, None) : n \in {None} \cup {Some(x) : x \in ProviderNames}}
          ELSE {})

\* the provider lists of exactly n entries in all (providers and their models)
RECURSIVE ProviderLists(_)
ProviderLists(n) ==
    IF n = 0 THEN {<<>>}
    ELSE UNION {{<<p>> \o r : p \in ProviderEntries(k), r \in ProviderLists(n - 1 - k)} :
                    k \in 0 .. (n - 1)}

LLMSections ==
    {None} \cup {Some(l) : l \in UNION {ProviderLists(n) : n \in 0 .. MaxEntries}}

RedisSection ==
    [host |-> Some("localhost"), port |-> Some(6379), max_memory |-> Some("500mb"),
     max_memory_policy |-> Some("allkeys-lru")]

MemorySection == [max_entries |-> Some(100)]

Cache(type, redis, memory) == [type |-> type, redis |-> redis, memory |-> memory]

CacheSections ==
    {None,
     Some(Cache(None, None, None)),
     Some(Cache(Some("redis"), None, None)),
     Some(Cache(Some("redis"), Some(RedisSection), None)),
     Some(Cache(Some("memory"), None, None)),
     Some(Cache(Some("memory"), None, Some(MemorySection))),
     Some(Cache(Some("postgres"), None, None))}

LoggerSections == {None, Some([level |-> Some("INFO"), filename |-> None])}

OLSSections ==
    {None} \cup
    {Some([default_model |-> d, classifier_model |-> c, enable_debug_ui |-> u,
           conversation_cache |-> cc, logger_config |-> lc]) :
        d \in {None, Some("gpt-4")}, c \in {None, Some("gpt-4")},
        u \in {None, Some(TRUE)}, cc \in CacheSections, lc \in LoggerSections}

\* the document of the end-to-end scenario
ScenarioLLM == Some(<< Provider(Some("openai"), Some(<< Model(Some("gpt-4"), None) >>)) >>)

ScenarioOLS ==
    Some([default_model |-> Some("gpt-4"), classifier_model |-> Some("gpt-4"),
          enable_debug_ui |-> None,
          conversation_cache |-> Some(Cache(Some("memory"), None, Some(MemorySection))),
          logger_config |-> Some([level |-> Some("INFO"), filename |-> None])])

Document(llm, ols) == Some([llm_providers |-> llm, ols_config |-> ols])

\* every llm_providers section with a few ols_config sections, and every
\* ols_config section with a few llm_providers sections; None is the empty document
Documents ==
    {None}
    \cup {Document(l, o) : l \in LLMSections, o \in {None, ScenarioOLS}}
    \cup {Document(l, o) : l \in {None, ScenarioLLM}, o \in OLSSections}

File(state, data) == [state |-> state, data |-> data]

Files ==
    {File("missing", None), File("malformed", None)}
    \cup {File("ok", d) : d \in Documents}

\* the documents loaded one after another by a long-lived process
ReloadProviders ==
    {Provider(Some("openai"), Some(<< Model(Some("gpt-4"), None) >>)),
     Provider(Some("openai"), Some(<< Model(Some("gpt-4"), Some("https://llm.example/v1")) >>)),
     Provider(Some("bam"), Some(<< Model(Some("gpt-4"), None) >>))}

ReloadFiles ==
    {File("missing", None), File("ok", None)}
    \cup {File("ok", Document(Some(<<p>>), ScenarioOLS)) : p \in ReloadProviders}
    \cup {File("ok", Document(Some(pq), ScenarioOLS)) :
             pq \in {l \in ReloadProviders \X ReloadProviders : l[1] # l[2]}}

\* Config values handed to Config.validate
ProviderValues ==
    {EmptyDict,
     "openai" :> [name |-> Some("openai"), url |-> None, credential_path |-> None,
                  models |-> ("gpt-4" :> Model(Some("gpt-4"), None))]}

OLSValues ==
    {[enable_debug_ui |-> u, default_model |-> d, classifier_model |-> c,
      conversation_cache |-> cc, logger_config |-> lc] :
        u \in BOOLEAN, d \in {None, Some("gpt-4")}, c \in {None, Some("gpt-4")},
        cc \in {None, Some([type |-> Some("memory"), redis |-> None,
                            memory |-> Some(MemorySection)])},
        lc \in {None, Some([level |-> Some("INFO"), filename |-> None])}}

Configs ==
    {[llm_config |-> l, ols_config |-> o] :
        l \in {None} \cup {Some([providers |-> ps]) : ps \in ProviderValues},
        o \in {None} \cup {Some(v) : v \in OLSValues}}

----------------------------------------------------------------------------
(* Specifications *)

Init ==
    /\ process = "running"
    /\ source = "none"
    /\ loads = <<>>
    /\ config = None
    /\ validated = None
    /\ stdout = <<>>
    /\ classDicts = <<EmptyDict, EmptyDict>>

\* the load at startup: one document, any source
Startup ==
    /\ loads = <<>>
    /\ \E config_file \in SourceKinds, file \in Files : load_config(config_file, file)

Next == Startup \/ validate

Spec == Init /\ [][Next]_vars

\* a process that loads again and again
Reload == \E config_file \in SourceKinds, file \in ReloadFiles : load_config(config_file, file)

NextReload == Reload

SpecReload == Init /\ [][NextReload]_vars

\* Config.validate on its own, over every shape of Config
InitValidate ==
    /\ process = "running"
    /\ source = "none"
    /\ loads = <<>>
    /\ config \in {Some(c) : c \in Configs}
    /\ validated = None
    /\ stdout = <<>>
    /\ classDicts = <<EmptyDict, EmptyDict>>

NextValidate == validate

SpecValidate == InitValidate /\ [][NextValidate]_vars

----------------------------------------------------------------------------
(* What a document says, read off the document alone *)

Range(q) == {q[i] : i \in 1 .. Len(q)}

Calls == 1 .. Len(loads)

\* the call parsed a document that is a mapping
HasDocument(l) == l.data # None /\ l.data[1] # None

ProvidersOf(l) ==
    IF l.data[1][1].llm_providers = None THEN <<>> ELSE l.data[1][1].llm_providers[1]

OLSOf(l) == l.data[1][1].ols_config

ModelsOf(p) == IF p.models = None THEN <<>> ELSE p.models[1]

FirstNamelessModel(p) ==
    CHOOSE j \in 1 .. Len(ModelsOf(p)) :
        /\ ModelsOf(p)[j].name = None
        /\ \A k \in 1 .. (j - 1) : ModelsOf(p)[k].name # None

HasNamelessModel(p) == \E j \in 1 .. Len(ModelsOf(p)) : ModelsOf(p)[j].name = None

OmitsName(p) == p.name = None \/ HasNamelessModel(p)

NamedWithoutModels(p) == p.name # None /\ Len(ModelsOf(p)) = 0

Faulty(p) == OmitsName(p) \/ NamedWithoutModels(p)

FirstFaulty(ps) ==
    CHOOSE i \in 1 .. Len(ps) : Faulty(ps[i]) /\ \A k \in 1 .. (i - 1) : ~Faulty(ps[k])

\* the section of an llm_providers list that constructs
ValidProviders(ps) == Len(ps) >= 1 /\ \A i \in 1 .. Len(ps) : ~Faulty(ps[i])

CacheOf(l) == IF OLSOf(l) = None THEN None ELSE OLSOf(l)[1].conversation_cache

CacheLacks(l, type) ==
    /\ CacheOf(l) # None
    /\ CacheOf(l)[1].type = Some(type)
    /\ (IF type = "redis" THEN CacheOf(l)[1].redis ELSE CacheOf(l)[1].memory) = None

MissingName == {"provider name is missing", "model name is missing"}

LastIndexOf(q, name) ==
    CHOOSE i \in 1 .. Len(q) : q[i].name = name /\ \A k \in (i + 1) .. Len(q) : q[k].name # name

NamesOf(q) == {q[i].name[1] : i \in {k \in 1 .. Len(q) : q[k].name # None}}

----------------------------------------------------------------------------
(* Claims *)

\* C1: a document with at least one provider, each with at least one named
\* model, whose ols_config sets default_model and classifier_model, a valid
\* conversation_cache and a logger_config, is loaded into a Config on which
\* validate raises nothing.
WellFormed(l) ==
    /\ HasDocument(l)
    /\ ValidProviders(ProvidersOf(l))
    /\ OLSOf(l) # None
    /\ OLSOf(l)[1].default_model # None
    /\ OLSOf(l)[1].classifier_model # None
    /\ CacheOf(l) # None
    /\ CacheOf(l)[1].type \in {Some("redis"), Some("memory")}
    /\ ~CacheLacks(l, "redis") /\ ~CacheLacks(l, "memory")
    /\ OLSOf(l)[1].logger_config # None

C1_WellFormedValidates ==
    \A i \in Calls :
        WellFormed(loads[i]) =>
            /\ loads[i].kind = "returned"
            /\ ConfigValidate(loads[i].cfg[1]) = NoError

\* C2: whenever load_config returns a Config, its llm_config and its
\* ols_config are both non-null, whatever the document.
C2_NeverPartial ==
    \A i \in Calls :
        loads[i].kind = "returned" =>
            loads[i].cfg[1].llm_config # None /\ loads[i].cfg[1].ols_config # None

\* C3: whenever opening, parsing or constructing fails, load_config prints the
\* error and the trace and exits with status 1, for every kind of source; no
\* exception reaches the caller.
C3_FailureExits ==
    \A i \in Calls :
        loads[i].exc # None =>
            /\ loads[i].kind = "exit"
            /\ loads[i].exit_status = Some(1)
            /\ loads[i].escaped = None
            /\ \E n \in 1 .. Len(stdout) : stdout[n][1] = "Failed to load config file"

\* C4: every Config that load_config returns has passed the seven checks of
\* validate.
C4_ReturnedIsValidated ==
    \A i \in Calls :
        loads[i].kind = "returned" => ConfigValidate(loads[i].cfg[1]) = NoError

\* C5 as stated: a document in which some provider or model entry omits name
\* fails with a missing-name error, raised at a nameless entry, before
\* ols_config is processed.
C5_MissingNameError ==
    \A i \in Calls :
        (HasDocument(loads[i]) /\ \E k \in 1 .. Len(ProvidersOf(loads[i])) :
                                      OmitsName(ProvidersOf(loads[i])[k])) =>
            /\ loads[i].exc # None
            /\ loads[i].exc[1].msg \in MissingName
            /\ <<"ols_config">> \notin Range(loads[i].visited)

\* C5 as amended: such a document fails at the first faulty entry in list
\* order, before any later list entry and before ols_config is processed; the
\* error is a missing-name error unless a named provider without models comes
\* earlier in the list, and then it is "no models configured for provider".
C5_FirstFaultError ==
    \A i \in Calls :
        (HasDocument(loads[i]) /\ \E k \in 1 .. Len(ProvidersOf(loads[i])) :
                                      OmitsName(ProvidersOf(loads[i])[k])) =>
            LET ps == ProvidersOf(loads[i])
                f == FirstFaulty(ps)
                seen == loads[i].visited
            IN  /\ loads[i].exc # None
                /\ loads[i].kind # "returned"
                /\ <<"ols_config">> \notin Range(seen)
                /\ \A k \in (f + 1) .. Len(ps) : <<"provider", k>> \notin Range(seen)
                /\ IF ps[f].name = None
                   THEN /\ loads[i].exc[1].msg = "provider name is missing"
                        /\ seen[Len(seen)] = <<"provider", f>>
                   ELSE IF NamedWithoutModels(ps[f])
                   THEN /\ loads[i].exc[1].msg = "no models configured for provider"
                        /\ loads[i].exc[1].arg = ps[f].name[1]
                        /\ seen[Len(seen)] = <<"provider", f>>
                   ELSE /\ loads[i].exc[1].msg = "model name is missing"
                        /\ seen[Len(seen)] = <<"model", FirstNamelessModel(ps[f])>>

\* a well-formed first provider, then a provider with a nameless model: the
\* first provider was processed, then the load failed at the nameless model
C5_Witness ==
    /\ loads # <<>>
    /\ HasDocument(loads[1])
    /\ Len(ProvidersOf(loads[1])) = 2
    /\ ~Faulty(ProvidersOf(loads[1])[1])
    /\ HasNamelessModel(ProvidersOf(loads[1])[2])
    /\ loads[1].exc = Some(Exception("model name is missing"))
    /\ process = "exited"

C7_ProviderKeys ==
    \A i \in Calls :
        (/\ HasDocument(loads[i])
         /\ ValidProviders(ProvidersOf(loads[i]))
         /\ ~CacheLacks(loads[i], "redis") /\ ~CacheLacks(loads[i], "memory")) =>
            /\ loads[i].kind = "returned"
            /\ DOMAIN loads[i].cfg[1].llm_config[1].providers = NamesOf(ProvidersOf(loads[i]))

\* a load of a document that names other providers than the load before it
C7_Witness ==
    /\ Len(loads) >= 2
    /\ loads[1].kind = "returned" /\ HasDocument(loads[1])
    /\ loads[2].kind = "returned" /\ HasDocument(loads[2])
    /\ NamesOf(ProvidersOf(loads[1])) = {"bam"}
    /\ DOMAIN loads[2].cfg[1].llm_config[1].providers = {"openai"}

\* C8: when several entries of a provider list or of a model list carry the
\* same name, the mapping holds one entry under that name, with the field
\* values of the last of them.
ExpectedModels(p) ==
    [n \in NamesOf(ModelsOf(p)) |->
        LET m == ModelsOf(p)[LastIndexOf(ModelsOf(p), Some(n))]
        IN  [name |-> m.name, url |-> m.url, credential_path |-> m.credential_path]]

C8_LastWins ==
    \A i \in Calls :
        (loads[i].kind = "returned" /\ HasDocument(loads[i])) =>
            LET ps == ProvidersOf(loads[i])
                got == loads[i].cfg[1].llm_config[1].providers
            IN  /\ DOMAIN got = NamesOf(ps)
                /\ \A n \in NamesOf(ps) :
                      LET p == ps[LastIndexOf(ps, Some(n))]
                      IN  got[n] = [name |-> p.name, url |-> p.url,
                                    credential_path |-> p.credential_path,
                                    models |-> ExpectedModels(p)]

\* two provider entries of one name whose models differ
C8_Witness ==
    /\ loads # <<>>
    /\ loads[1].kind = "returned" /\ HasDocument(loads[1])
    /\ Len(ProvidersOf(loads[1])) = 2
    /\ ProvidersOf(loads[1])[1].name = ProvidersOf(loads[1])[2].name
    /\ ProvidersOf(loads[1])[1] # ProvidersOf(loads[1])[2]
    /\ Cardinality(DOMAIN loads[1].cfg[1].llm_config[1].providers) = 1

\* C9: validate reports the first failing check in the order llm_config,
\* providers, ols_config, default_model, classifier_model, conversation_cache,
\* logger_config; a Config that lacks only default_model fails with
\* "default model is not set".
CheckOrder ==
    << "no llm config found", "no llm providers found", "no ols config found",
       "default model is not set", "classifier model is not set",
       "conversation cache is not set", "logger config is not set" >>

Fails(c, msg) ==
    IF msg = "no llm config found" THEN c.llm_config = None
    ELSE IF msg = "no llm providers found"
    THEN c.llm_config # None /\ DOMAIN c.llm_config[1].providers = {}
    ELSE IF msg = "no ols config found" THEN c.ols_config = None
    ELSE IF c.ols_config = None THEN FALSE
    ELSE IF msg = "default model is not set" THEN c.ols_config[1].default_model = None
    ELSE IF msg = "classifier model is not set" THEN c.ols_config[1].classifier_model = None
    ELSE IF msg = "conversation cache is not set"
    THEN c.ols_config[1].conversation_cache = None
    ELSE c.ols_config[1].logger_config = None

OnlyDefaultModelMissing(c) ==
    \A n \in 1 .. Len(CheckOrder) :
        Fails(c, CheckOrder[n]) <=> CheckOrder[n] = "default model is not set"

C9_FirstFailingCheck ==
    (config # None /\ validated # None) =>
        LET c == config[1]
            failing == {n \in 1 .. Len(CheckOrder) : Fails(c, CheckOrder[n])}
        IN  /\ failing = {} => validated[1] = NoError
            /\ failing # {} =>
                  \E n \in failing :
                      /\ \A k \in failing : n <= k
                      /\ validated[1] = Some(Exception(CheckOrder[n]))
            /\ OnlyDefaultModelMissing(c) =>
                  validated[1] = Some(Exception("default model is not set"))

C9_Witness ==
    /\ config # None
    /\ OnlyDefaultModelMissing(config[1])
    /\ validated = Some(Some(Exception("default model is not set")))

\* C10: two loads of one well-formed document in one process return Configs
\* with the same field values at every level, whatever was loaded in between.
C10_SameDocumentSameConfig ==
    \A i \in Calls : \A j \in Calls :
        (/\ i < j
         /\ loads[i].data # None /\ loads[j].data = loads[i].data
         /\ loads[i].kind = "returned") =>
            /\ loads[j].kind = "returned"
            /\ loads[j].cfg = loads[i].cfg

\* one document loaded, another one loaded, the first one loaded again
C10_Witness ==
    /\ Len(loads) >= 3
    /\ HasDocument(loads[1])
    /\ loads[3].data = loads[1].data
    /\ HasDocument(loads[2])
    /\ NamesOf(ProvidersOf(loads[2])) # NamesOf(ProvidersOf(loads[1]))
    /\ loads[1].kind = "returned" /\ loads[3].kind = "returned"

====
